---- MODULE Spec2Model ----
(***************************************************************************)
(* Model of src/app.py: a Streamlit chat client for an MCP server.         *)
(*                                                                         *)
(* The script is re-run from the top on every widget interaction; each     *)
(* run executes at most one handler (a button's `if` body or the chat      *)
(* input's).  st.session_state (messages, session_id, connection_status,   *)
(* debug_logs, server_url) survives across runs; the locals of a run       *)
(* (user_input, provider, model, use_memory, request_body, data) do not.   *)
(* requests.post is the one point where a run blocks: a handler that posts *)
(* is modelled as the step up to the post and the step from the post's     *)
(* outcome to the end of the run, with pc recording the blocked run.       *)
(*                                                                         *)
(* Text is a sequence of tokens, so that f-string formatting is            *)
(* concatenation and "starts with" is a prefix test.  Display timestamps   *)
(* (strftime) are not part of the model: no handler reads them back.       *)
(***************************************************************************)
EXTENDS Integers, Sequences, FiniteSets, TLC

VARIABLES
    messages,           \* st.session_state.messages
    session_id,         \* st.session_state.session_id
    connection_status,  \* st.session_state.connection_status
    debug_logs,         \* st.session_state.debug_logs
    server_url,         \* st.session_state.server_url / the Server URL widget
    pc,                 \* "idle", or where the current run is blocked in requests.post
    handler,            \* the handler the current (or last) run executed
    notice,             \* st.warning / st.error / st.success shown by the run
    turn,               \* locals of a chat run: user_input, provider, model, use_memory
    request,            \* request_body posted by the run
    response,           \* outcome of requests.post / response.json() in the run
    retired             \* session ids that New Session has replaced

vars == <<messages, session_id, connection_status, debug_logs, server_url, pc,
          handler, notice, turn, request, response, retired>>

----------------------------------------------------------------------------
(* Bounds of the model *)

MaxClock == 2
MaxMessages == 4
MaxLogs == 5

Clock == 1..MaxClock            \* values int(time.time() * 1000) may return
Urls == {"", "https://mcp"}
Inputs == {"hi"}
Providers == {"openai", "anthropic"}
Models == {"gpt-3.5-turbo", "claude-3-sonnet-20240229"}

----------------------------------------------------------------------------
(* Responses of the server and failures of the transport *)

Has(obj, key) == key \in DOMAIN obj

\* JSON-RPC error objects, with and without a message member
ErrorObjects == {[code |-> "-32000", message |-> "bad key"], [code |-> "-32000"]}

\* results of tools/call: content[0].text present, text absent, content empty,
\* content absent
ToolResults ==
    { [content |-> <<[type |-> "text", text |-> "hello"]>>],
      [content |-> <<[type |-> "text"]>>],
      [content |-> <<>>],
      [isError |-> "false"] }

\* results of initialize: serverInfo.name present, name absent, serverInfo absent
InitResults ==
    { [serverInfo |-> [name |-> "Fuse"]],
      [serverInfo |-> [version |-> "1"]],
      [protocolVersion |-> "2024-11-05"] }

Envelopes(results) ==
    {[jsonrpc |-> "2.0"]}
    \cup {[jsonrpc |-> "2.0", result |-> r] : r \in results}
    \cup {[jsonrpc |-> "2.0", error |-> e] : e \in ErrorObjects}
    \cup {[jsonrpc |-> "2.0", error |-> e, result |-> r] :
            e \in {[code |-> "-32000", message |-> "bad key"]}, r \in results}

\* what requests.post(...) followed by response.json() can produce
Failures == {"timeout", "connection_error", "request_exception", "non_json"}

Outcomes(results) ==
    {[kind |-> k] : k \in Failures}
    \cup {[kind |-> "json", data |-> d] : d \in Envelopes(results)}

\* the post returned a response (of any status, JSON or not)
Received(outcome) == outcome.kind \in {"json", "non_json"}

\* str(e) of what requests.post or response.json() raised
TransportText(outcome) ==
    CASE outcome.kind = "timeout" -> <<"Read timed out.">>
      [] outcome.kind = "connection_error" -> <<"Max retries exceeded">>
      [] outcome.kind = "request_exception" -> <<"Exceeded 30 redirects.">>
      [] outcome.kind = "non_json" -> <<"Expecting value: line 1 column 1 (char 0)">>

\* str(error) and json.dumps(error) of an error object
str(error) ==
    IF Has(error, "message")
    THEN <<"{'code': ", error.code, ", 'message': '", error.message, "'}">>
    ELSE <<"{'code': ", error.code, "}">>

json_dumps(error) ==
    IF Has(error, "message")
    THEN <<"{\"code\": ", error.code, ", \"message\": \"", error.message, "\"}">>
    ELSE <<"{\"code\": ", error.code, "}">>

IsPrefix(p, s) == Len(p) <= Len(s) /\ SubSeq(s, 1, Len(p)) = p

----------------------------------------------------------------------------
(* Helper functions of the script *)

add_debug_log(logs, message, log_type) ==
    Append(logs, [type |-> log_type, message |-> message])

SessionId(t) == <<"session-", t>>

ToolRequest(t, tool_name, arguments) ==
    [jsonrpc |-> "2.0", id |-> t, method |-> "tools/call",
     params |-> [name |-> tool_name, arguments |-> arguments]]

InitializeRequest ==
    [jsonrpc |-> "2.0", id |-> 1, method |-> "initialize", params |-> "{}"]

\* tool selection of the chat handler
ToolName(use_memory) == IF use_memory THEN "conversation_with_memory" ELSE "chat"

ToolArguments(user_input, sid, provider, model, use_memory) ==
    IF use_memory
    THEN [message |-> user_input, sessionId |-> sid, provider |-> provider]
    ELSE [message |-> user_input, provider |-> provider, model |-> model]

\* call_mcp_tool up to requests.post: the two entries logged before the post
CallLogsBefore(logs, tool_name) ==
    add_debug_log(
        add_debug_log(logs, <<"Calling tool: ", tool_name>>, "info"),
        <<"Request: ", tool_name>>, "info")

\* call_mcp_tool after requests.post: the entries logged once it returned
CallLogsAfter(logs, outcome) ==
    IF Received(outcome)
    THEN add_debug_log(
             add_debug_log(logs, <<"Response status: ">>, "info"),
             <<"Response: ", outcome.kind>>, "info")
    ELSE logs

\* the message of the exception raised at `raise Exception(data['error'].get(...))`
CallErrorText(error) ==
    IF Has(error, "message") THEN <<error.message>> ELSE str(error)

\* call_mcp_tool from the post's outcome on: what it returns or raises.
\* The raise for an error envelope and the KeyError of data['result'] happen
\* inside the try block, so the last except clause re-raises them prefixed.
call_mcp_tool(outcome) ==
    CASE outcome.kind = "timeout" ->
           [raised |-> TRUE,
            text |-> <<"Request timed out", ". The server took too long to respond.">>]
      [] outcome.kind = "connection_error" ->
           [raised |-> TRUE, text |-> <<"Connection failed. Check your server URL.">>]
      [] outcome.kind \in {"request_exception", "non_json"} ->
           [raised |-> TRUE, text |-> <<"Error: ">> \o TransportText(outcome)]
      [] outcome.kind = "json" /\ Has(outcome.data, "error") ->
           [raised |-> TRUE, text |-> <<"Error: ">> \o CallErrorText(outcome.data.error)]
      [] outcome.kind = "json" /\ ~Has(outcome.data, "error")
                               /\ ~Has(outcome.data, "result") ->
           [raised |-> TRUE, text |-> <<"Error: ", "'result'">>]
      [] OTHER -> [raised |-> FALSE, result |-> outcome.data.result]

\* Faulty variant of ExtractText: a missing text defaults to the empty string
ExtractTextDefaulting(result) ==
    IF Has(result, "content") /\ Len(result.content) > 0
                              /\ Has(result.content[1], "text")
    THEN [raised |-> FALSE, text |-> <<result.content[1].text>>]
    ELSE [raised |-> FALSE, text |-> <<"">>]

\* result['content'][0]['text'] of the chat handler
ExtractText(result) ==
    IF ~Has(result, "content") THEN [raised |-> TRUE, text |-> <<"'content'">>]
    ELSE IF Len(result.content) = 0
         THEN [raised |-> TRUE, text |-> <<"list index out of range">>]
    ELSE IF ~Has(result.content[1], "text")
         THEN [raised |-> TRUE, text |-> <<"'text'">>]
    ELSE [raised |-> FALSE, text |-> <<result.content[1].text>>]

\* the assistant message the chat handler appends for the outcome of the call
AssistantMessage(outcome) ==
    LET call == call_mcp_tool(outcome)
        reply == IF call.raised THEN call ELSE ExtractText(call.result)
    IN  IF reply.raised
        THEN [role |-> "assistant",
              content |-> <<"Error: ">> \o reply.text
                          \o <<"\n\nPlease check your server URL and API keys.">>,
              is_error |-> TRUE]
        ELSE [role |-> "assistant", content |-> reply.text, is_error |-> FALSE]

UserMessage(user_input) == [role |-> "user", content |-> <<user_input>>]

\* message.get('is_error', False)
IsError(message) == IF Has(message, "is_error") THEN message.is_error ELSE FALSE

\* Faulty variant of InitErrorText: the default is the stringified error object
InitErrorTextStringified(error) ==
    IF Has(error, "message") THEN <<error.message>> ELSE str(error)

\* text of the error branch of test_connection
InitErrorText(error) ==
    IF Has(error, "message") THEN <<error.message>> ELSE <<"Unknown error">>

\* data['result'].get('serverInfo', {}).get('name', 'Unknown')
ServerName(result) ==
    IF Has(result, "serverInfo") /\ Has(result.serverInfo, "name")
    THEN result.serverInfo.name
    ELSE "Unknown"

\* Faulty variant of test_connection: result is looked for before error
test_connection_result_first(outcome) ==
    CASE outcome.kind # "json" ->
           [success |-> FALSE, message |-> TransportText(outcome)]
      [] outcome.kind = "json" /\ Has(outcome.data, "result") ->
           [success |-> TRUE,
            message |-> <<"Connected to ", ServerName(outcome.data.result)>>]
      [] outcome.kind = "json" /\ ~Has(outcome.data, "result")
                               /\ Has(outcome.data, "error") ->
           [success |-> FALSE,
            message |-> <<"Server error: ">> \o InitErrorText(outcome.data.error)]
      [] OTHER -> [success |-> FALSE, message |-> <<"Unexpected response format">>]

\* test_connection from the post's outcome on: the (success, message) pair
test_connection(outcome) ==
    CASE outcome.kind # "json" ->
           [success |-> FALSE, message |-> TransportText(outcome)]
      [] outcome.kind = "json" /\ Has(outcome.data, "error") ->
           [success |-> FALSE,
            message |-> <<"Server error: ">> \o InitErrorText(outcome.data.error)]
      [] outcome.kind = "json" /\ ~Has(outcome.data, "error")
                               /\ Has(outcome.data, "result") ->
           [success |-> TRUE,
            message |-> <<"Connected to ", ServerName(outcome.data.result)>>]
      [] OTHER -> [success |-> FALSE, message |-> <<"Unexpected response format">>]

\* Faulty variant of TestLogsAfter: the except clause logs nothing
TestLogsAfterSilentFailure(logs, outcome) ==
    LET got == IF Received(outcome)
               THEN add_debug_log(logs, <<"Response status: ">>, "info")
               ELSE logs
    IN  CASE outcome.kind = "json" /\ Has(outcome.data, "error") ->
               add_debug_log(got, <<"Server error: ">> \o json_dumps(outcome.data.error),
                             "error")
          [] outcome.kind = "json" /\ ~Has(outcome.data, "error")
                                   /\ Has(outcome.data, "result") ->
               add_debug_log(got, <<"Connection successful! Server: ",
                                    ServerName(outcome.data.result)>>, "success")
          [] OTHER -> got

\* test_connection after requests.post: the entries it logs
TestLogsAfter(logs, outcome) ==
    LET got == IF Received(outcome)
               THEN add_debug_log(logs, <<"Response status: ">>, "info")
               ELSE logs
    IN  CASE outcome.kind # "json" ->
               add_debug_log(got, <<"Connection failed: ">> \o TransportText(outcome),
                             "error")
          [] outcome.kind = "json" /\ Has(outcome.data, "error") ->
               add_debug_log(got, <<"Server error: ">> \o json_dumps(outcome.data.error),
                             "error")
          [] outcome.kind = "json" /\ ~Has(outcome.data, "error")
                                   /\ Has(outcome.data, "result") ->
               add_debug_log(got, <<"Connection successful! Server: ",
                                    ServerName(outcome.data.result)>>, "success")
          [] OTHER -> got

StatusOf(success) == IF success THEN "connected" ELSE "error"

----------------------------------------------------------------------------
(* State *)

NoTurn == [user_input |-> "none"]
NoRequest == [method |-> "none"]
NoResponse == [kind |-> "none"]
NoNotice == [level |-> "none"]

Init ==
    /\ messages = <<>>
    /\ \E t \in Clock : session_id = SessionId(t)
    /\ connection_status = "unknown"
    /\ debug_logs = <<>>
    /\ server_url = ""
    /\ pc = "idle"
    /\ handler = "start"
    /\ notice = NoNotice
    /\ turn = NoTurn
    /\ request = NoRequest
    /\ response = NoResponse
    /\ retired = {}

\* a run that posts nothing leaves no locals behind
NoLocals == turn' = NoTurn /\ request' = NoRequest /\ response' = NoResponse

----------------------------------------------------------------------------
(* Handlers: one script run each *)

\* the Server URL text input is edited
SetServerUrl ==
    /\ pc = "idle"
    /\ \E u \in Urls : u # server_url /\ server_url' = u
    /\ handler' = "server_url"
    /\ notice' = NoNotice
    /\ NoLocals
    /\ UNCHANGED <<messages, session_id, connection_status, debug_logs, pc, retired>>

\* Test Connection with no server URL
TestConnectionRejected ==
    /\ pc = "idle"
    /\ server_url = ""
    /\ handler' = "test_connection"
    /\ notice' = [level |-> "warning", text |-> <<"Please enter a server URL first">>]
    /\ NoLocals
    /\ UNCHANGED <<messages, session_id, connection_status, debug_logs, server_url, pc,
                   retired>>

\* Test Connection: test_connection up to requests.post
TestConnectionPost ==
    /\ pc = "idle"
    /\ server_url # ""
    /\ Len(debug_logs) + 3 <= MaxLogs
    /\ debug_logs' = add_debug_log(debug_logs, <<"Testing connection to: ", server_url>>,
                                   "info")
    /\ request' = InitializeRequest
    /\ pc' = "testing"
    /\ handler' = "test_connection"
    /\ notice' = NoNotice
    /\ turn' = NoTurn
    /\ response' = NoResponse
    /\ UNCHANGED <<messages, session_id, connection_status, server_url, retired>>

\* Test Connection: from the outcome of the post to the end of the run
TestConnectionReturn ==
    /\ pc = "testing"
    /\ \E outcome \in Outcomes(InitResults) :
         LET r == test_connection(outcome)
         IN  /\ response' = outcome
             /\ debug_logs' = TestLogsAfter(debug_logs, outcome)
             /\ connection_status' = StatusOf(r.success)
             /\ notice' = [level |-> IF r.success THEN "success" ELSE "error",
                           text |-> r.message]
    /\ pc' = "idle"
    /\ UNCHANGED <<messages, session_id, server_url, handler, turn, request, retired>>

\* Faulty variant of ClearChat: only the last message is removed
ClearChatLastOnly ==
    /\ pc = "idle"
    /\ messages' = SubSeq(messages, 1, Len(messages) - 1)
    /\ handler' = "clear_chat"
    /\ notice' = NoNotice
    /\ NoLocals
    /\ UNCHANGED <<session_id, connection_status, debug_logs, server_url, pc, retired>>

\* Clear Chat
ClearChat ==
    /\ pc = "idle"
    /\ messages' = <<>>
    /\ handler' = "clear_chat"
    /\ notice' = NoNotice
    /\ NoLocals
    /\ UNCHANGED <<session_id, connection_status, debug_logs, server_url, pc, retired>>

\* Faulty variant of NewSession: the connection status is reset as well
NewSessionResettingStatus ==
    /\ pc = "idle"
    /\ messages' = <<>>
    /\ \E t \in Clock : session_id' = SessionId(t)
    /\ retired' = retired \cup {session_id}
    /\ connection_status' = "unknown"
    /\ handler' = "new_session"
    /\ notice' = NoNotice
    /\ NoLocals
    /\ UNCHANGED <<debug_logs, server_url, pc>>

\* New Session: the id is read off the wall clock, which may return the value
\* it returned before
NewSession ==
    /\ pc = "idle"
    /\ messages' = <<>>
    /\ \E t \in Clock : session_id' = SessionId(t)
    /\ retired' = retired \cup {session_id}
    /\ handler' = "new_session"
    /\ notice' = NoNotice
    /\ NoLocals
    /\ UNCHANGED <<connection_status, debug_logs, server_url, pc>>

\* Faulty variant of ChatRejected: the user message is appended before the
\* URL is looked at
ChatRejectedAfterAppend ==
    /\ pc = "idle"
    /\ server_url = ""
    /\ Len(messages) < MaxMessages
    /\ \E user_input \in Inputs :
         /\ turn' = [user_input |-> user_input]
         /\ messages' = Append(messages, UserMessage(user_input))
    /\ handler' = "chat_input"
    /\ notice' = [level |-> "error",
                  text |-> <<"Please configure your MCP Server URL in the sidebar first!">>]
    /\ request' = NoRequest
    /\ response' = NoResponse
    /\ UNCHANGED <<session_id, connection_status, debug_logs, server_url, pc, retired>>

\* chat input with no server URL
ChatRejected ==
    /\ pc = "idle"
    /\ server_url = ""
    /\ \E user_input \in Inputs :
         turn' = [user_input |-> user_input]
    /\ handler' = "chat_input"
    /\ notice' = [level |-> "error",
                  text |-> <<"Please configure your MCP Server URL in the sidebar first!">>]
    /\ request' = NoRequest
    /\ response' = NoResponse
    /\ UNCHANGED <<messages, session_id, connection_status, debug_logs, server_url, pc,
                   retired>>

\* chat input: the user message, tool selection and call_mcp_tool up to requests.post
ChatSend ==
    /\ pc = "idle"
    /\ server_url # ""
    /\ Len(messages) + 2 <= MaxMessages
    /\ Len(debug_logs) + 4 <= MaxLogs
    /\ \E user_input \in Inputs, provider \in Providers, model \in Models,
          use_memory \in BOOLEAN, t \in Clock :
         /\ turn' = [user_input |-> user_input, provider |-> provider,
                     model |-> model, use_memory |-> use_memory]
         /\ messages' = Append(messages, UserMessage(user_input))
         /\ request' = ToolRequest(t, ToolName(use_memory),
                          ToolArguments(user_input, session_id, provider, model,
                                        use_memory))
         /\ debug_logs' = CallLogsBefore(debug_logs, ToolName(use_memory))
    /\ pc' = "calling"
    /\ handler' = "chat_input"
    /\ notice' = NoNotice
    /\ response' = NoResponse
    /\ UNCHANGED <<session_id, connection_status, server_url, retired>>

\* chat input: from the outcome of the post to st.rerun()
ChatReturn ==
    /\ pc = "calling"
    /\ \E outcome \in Outcomes(ToolResults) :
         /\ response' = outcome
         /\ debug_logs' = CallLogsAfter(debug_logs, outcome)
         /\ messages' = Append(messages, AssistantMessage(outcome))
    /\ pc' = "idle"
    /\ UNCHANGED <<session_id, connection_status, server_url, handler, notice, turn,
                   request, retired>>

\* Clear Debug Logs, shown while there are logs
ClearDebugLogs ==
    /\ pc = "idle"
    /\ Len(debug_logs) > 0
    /\ debug_logs' = <<>>
    /\ handler' = "clear_debug_logs"
    /\ notice' = NoNotice
    /\ NoLocals
    /\ UNCHANGED <<messages, session_id, connection_status, server_url, pc, retired>>

Next ==
    \/ SetServerUrl
    \/ TestConnectionRejected
    \/ TestConnectionPost
    \/ TestConnectionReturn
    \/ ClearChat
    \/ NewSession
    \/ ChatRejected
    \/ ChatSend
    \/ ChatReturn
    \/ ClearDebugLogs

Spec == Init /\ [][Next]_vars

----------------------------------------------------------------------------
(* Vocabulary of the properties *)

Last(seq) == seq[Len(seq)]

\* a chat run has finished: its outcome is in response
TurnDone == pc = "idle" /\ handler = "chat_input" /\ response.kind # "none"

\* a connection test that posted has finished
TestDone == pc = "idle" /\ handler = "test_connection" /\ response.kind # "none"

\* the outcome is a JSON envelope with / without an error member
IsErrorEnvelope(outcome) == outcome.kind = "json" /\ Has(outcome.data, "error")
IsResultEnvelope(outcome) ==
    outcome.kind = "json" /\ ~Has(outcome.data, "error") /\ Has(outcome.data, "result")

\* callTool failed: transport failure, non-JSON body, error envelope, no result
CallFailed(outcome) == ~IsResultEnvelope(outcome)

\* a success result without content[0].text
TextMissing(outcome) ==
    /\ IsResultEnvelope(outcome)
    /\ \/ ~Has(outcome.data.result, "content")
       \/ outcome.data.result.content = <<>>
       \/ ~Has(outcome.data.result.content[1], "text")

Advice == <<"\n\nPlease check your server URL and API keys.">>

----------------------------------------------------------------------------
(* C1 *)

\* C1: a turn submitted with a server URL appends the user message when it is
\* sent and, whatever the outcome of the call, exactly one assistant message
\* when it returns, ending idle; that message has is_error = TRUE exactly when
\* the call failed or the reply text was missing, and after a timeout its
\* content starts with "Error: Request timed out".
C1_TurnAlwaysAnswered ==
    [][ /\ (pc = "idle" /\ pc' = "calling") =>
              /\ server_url # ""
              /\ messages' = Append(messages, [role |-> "user",
                                               content |-> <<turn'.user_input>>])
        /\ pc = "calling" =>
              /\ pc' = "idle"
              /\ Last(messages).role = "user"
              /\ Len(messages') = Len(messages) + 1
              /\ SubSeq(messages', 1, Len(messages)) = messages
              /\ Last(messages').role = "assistant"
              /\ IsError(Last(messages')) <=>
                    (CallFailed(response') \/ TextMissing(response'))
              /\ response'.kind = "timeout" =>
                    IsPrefix(<<"Error: ", "Request timed out">>, Last(messages').content)
      ]_vars

\* C1 witness: a turn whose success result had an empty content list ended
\* with the user message followed by one error message.
C1_Witness ==
    /\ TurnDone
    /\ TextMissing(response)
    /\ Len(messages) = 2
    /\ messages[1].role = "user"
    /\ messages[2].role = "assistant" /\ IsError(messages[2])

----------------------------------------------------------------------------
(* C2 *)

\* C2: every request in flight for a turn has method tools/call; with memory on
\* it names conversation_with_memory with arguments {message, sessionId,
\* provider}, sessionId being the current session id and not an id that an
\* earlier New Session replaced; with memory off it names chat with arguments
\* {message, provider, model}.
C2_RequestShape ==
    pc = "calling" =>
        /\ request.method = "tools/call"
        /\ turn.use_memory =>
              /\ request.params.name = "conversation_with_memory"
              /\ request.params.arguments =
                    [message |-> turn.user_input, sessionId |-> session_id,
                     provider |-> turn.provider]
              /\ request.params.arguments.sessionId \notin retired
        /\ ~turn.use_memory =>
              /\ request.params.name = "chat"
              /\ request.params.arguments =
                    [message |-> turn.user_input, provider |-> turn.provider,
                     model |-> turn.model]

\* The part of C2 that does not depend on session ids being fresh: the request
\* in flight follows the turn's configuration and carries the current session id.
RequestFollowsConfiguration ==
    pc = "calling" =>
        /\ request.method = "tools/call"
        /\ request.params.name = (IF turn.use_memory THEN "conversation_with_memory"
                                                     ELSE "chat")
        /\ request.params.arguments =
              (IF turn.use_memory
               THEN [message |-> turn.user_input, sessionId |-> session_id,
                     provider |-> turn.provider]
               ELSE [message |-> turn.user_input, provider |-> turn.provider,
                     model |-> turn.model])

----------------------------------------------------------------------------
(* C3 *)

\* C3: submitting chat input while the server URL is empty appends no message,
\* posts nothing, leaves session id, connection status and debug log as they
\* were, shows a validation notice and ends idle.
C3_EmptyUrlRejected ==
    [][ (pc = "idle" /\ server_url = "" /\ handler' = "chat_input") =>
            /\ messages' = messages
            /\ pc' = "idle"
            /\ request'.method = "none"
            /\ session_id' = session_id
            /\ connection_status' = connection_status
            /\ debug_logs' = debug_logs
            /\ notice'.level \in {"warning", "error"}
      ]_vars

\* C3 witness: after a test and a turn, input submitted with the URL emptied
\* was rejected with a notice, messages and logs still in place.
C3_Witness ==
    /\ pc = "idle" /\ handler = "chat_input" /\ server_url = ""
    /\ notice.level = "error"
    /\ Len(messages) = 2
    /\ Len(debug_logs) > 0
    /\ connection_status = "connected"

----------------------------------------------------------------------------
(* C4 *)

\* C4: New Session always yields a session id different from the previous one,
\* and an empty message log.
C4_NewSessionFreshId ==
    [][ handler' = "new_session" =>
            (session_id' # session_id /\ messages' = <<>>) ]_vars

----------------------------------------------------------------------------
(* C5 *)

\* C5: when the tools/call response has an error member, the call fails with
\* the server's error.message (the stringified error object if it has no
\* message), nothing added, which the turn shows as "Error: " + message + advice.
C5_RemoteErrorVerbatim ==
    (TurnDone /\ IsErrorEnvelope(response)) =>
        LET error == response.data.error
            message == IF Has(error, "message") THEN <<error.message>> ELSE str(error)
        IN  /\ call_mcp_tool(response).raised
            /\ call_mcp_tool(response).text = message
            /\ Last(messages).content = <<"Error: ">> \o message \o Advice

----------------------------------------------------------------------------
(* C6 *)

\* C6: a connection test always ends with a (success, message) pair: an error
\* member gives (FALSE, "Server error: " + message) even beside a result; a
\* result without error gives (TRUE, "Connected to " + serverInfo.name or
\* "Unknown"); neither gives (FALSE, "Unexpected response format"); a transport
\* failure gives (FALSE, its message); the status is connected exactly when
\* the flag is TRUE and error otherwise.
C6_TestConnectionPair ==
    TestDone =>
        LET success == notice.level = "success"
            message == notice.text
        IN  /\ notice.level \in {"success", "error"}
            /\ connection_status = (IF success THEN "connected" ELSE "error")
            /\ IsErrorEnvelope(response) =>
                  /\ ~success
                  /\ IsPrefix(<<"Server error: ">>, message)
                  /\ Has(response.data.error, "message") =>
                        message = <<"Server error: ", response.data.error.message>>
            /\ IsResultEnvelope(response) =>
                  /\ success
                  /\ message = <<"Connected to ",
                        IF /\ Has(response.data.result, "serverInfo")
                           /\ Has(response.data.result.serverInfo, "name")
                        THEN response.data.result.serverInfo.name
                        ELSE "Unknown">>
            /\ (response.kind = "json" /\ ~Has(response.data, "error")
                                       /\ ~Has(response.data, "result")) =>
                  (~success /\ message = <<"Unexpected response format">>)
            /\ response.kind # "json" =>
                  (~success /\ message = TransportText(response))

\* C6 witness: a response carrying both error and result ended the test with
\* the server error and status error.
C6_Witness ==
    /\ TestDone
    /\ IsErrorEnvelope(response) /\ Has(response.data, "result")
    /\ notice = [level |-> "error", text |-> <<"Server error: ", "bad key">>]
    /\ connection_status = "error"

----------------------------------------------------------------------------
(* C7 *)

\* C7 as stated: for an error object without a message member the connection
\* test reports the whole error object stringified, as the tool call does.
C7_InitStringifiesError ==
    (TestDone /\ IsErrorEnvelope(response) /\ ~Has(response.data.error, "message")) =>
        notice.text = <<"Server error: ">> \o str(response.data.error)

\* C7 amended: for an error object without a message member the connection
\* test reports the fixed text "Unknown error"; only the tool call reports the
\* stringified error object.
C7_InitUnknownError ==
    /\ (TestDone /\ IsErrorEnvelope(response) /\ ~Has(response.data.error, "message")) =>
          notice.text = <<"Server error: ", "Unknown error">>
    /\ (TurnDone /\ IsErrorEnvelope(response) /\ ~Has(response.data.error, "message")) =>
          Last(messages).content =
              <<"Error: ", "Error: ">> \o str(response.data.error) \o Advice

\* C7 witness: a test answered by an error object without message.
C7_Witness ==
    /\ TestDone
    /\ IsErrorEnvelope(response) /\ ~Has(response.data.error, "message")
    /\ notice.level = "error"

----------------------------------------------------------------------------
(* C8 *)

\* C8 as stated: every attempt appends a debug log entry before the request is
\* sent and another after the attempt concludes, whatever its outcome.
C8_LoggedBeforeAndAfter ==
    [][ /\ (pc = "idle" /\ pc' \in {"calling", "testing"}) =>
              Len(debug_logs') > Len(debug_logs)
        /\ pc \in {"calling", "testing"} =>
              Len(debug_logs') > Len(debug_logs)
      ]_vars

\* C8 amended: every attempt appends a debug log entry before the request is
\* sent; a connection test appends another after the attempt concludes,
\* whatever its outcome; a tool call appends entries after the attempt exactly
\* when a response was received (JSON or not), and none after a timeout, a
\* connection failure or another transport fault.
C8_LoggedBeforeAfterReceived ==
    [][ /\ (pc = "idle" /\ pc' \in {"calling", "testing"}) =>
              /\ Len(debug_logs') > Len(debug_logs)
              /\ SubSeq(debug_logs', 1, Len(debug_logs)) = debug_logs
        /\ pc = "testing" =>
              /\ Len(debug_logs') > Len(debug_logs)
              /\ SubSeq(debug_logs', 1, Len(debug_logs)) = debug_logs
        /\ pc = "calling" =>
              /\ response'.kind \in {"json", "non_json"} =>
                    /\ Len(debug_logs') > Len(debug_logs)
                    /\ SubSeq(debug_logs', 1, Len(debug_logs)) = debug_logs
              /\ response'.kind \notin {"json", "non_json"} =>
                    debug_logs' = debug_logs
      ]_vars

\* C8 witness: a tool call that timed out left only the entries logged before
\* the request.
C8_Witness ==
    /\ TurnDone
    /\ response.kind = "timeout"
    /\ Len(debug_logs) = 2

----------------------------------------------------------------------------
(* C9 *)

\* C9: the connection status starts unknown, is changed only by the return of a
\* connection test that posted (never by a chat turn, Clear Chat, New Session,
\* Clear Debug Logs or a test with an empty URL), and never returns to unknown.
C9_StatusOnlyByTest ==
    /\ connection_status = "unknown"
    /\ [][ /\ connection_status' # connection_status =>
                 (pc = "testing" /\ handler' = "test_connection")
           /\ handler' \in {"chat_input", "clear_chat", "new_session",
                            "clear_debug_logs", "server_url"} =>
                 connection_status' = connection_status
           /\ (handler' = "test_connection" /\ pc = "idle") =>
                 connection_status' = connection_status
           /\ connection_status # "unknown" => connection_status' # "unknown"
         ]_vars

\* C9 witness: after a successful test, a failed chat turn left the status
\* connected.
C9_Witness ==
    /\ TurnDone
    /\ IsError(Last(messages))
    /\ connection_status = "connected"

----------------------------------------------------------------------------
(* C10 *)

\* C10: the message log changes only by one message appended at its end or by
\* being emptied by Clear Chat or New Session; appended messages are never
\* modified, removed one by one or reordered; Clear Chat empties the log and
\* keeps the session id.
C10_AppendOrEmpty ==
    [][ /\ \/ messages' = messages
           \/ /\ Len(messages') = Len(messages) + 1
              /\ SubSeq(messages', 1, Len(messages)) = messages
           \/ /\ messages' = <<>>
              /\ handler' \in {"clear_chat", "new_session"}
        /\ handler' = "clear_chat" =>
              (messages' = <<>> /\ session_id' = session_id)
      ]_vars

\* C10 witness: two turns were appended in order and the session was replaced
\* before, so Clear Chat acts on a log of four with a session id to keep.
C10_Witness ==
    /\ pc = "idle"
    /\ Len(messages) = 4
    /\ messages[1].role = "user" /\ messages[2].role = "assistant"
    /\ messages[3].role = "user" /\ messages[4].role = "assistant"
    /\ messages[2] # messages[4]
    /\ retired # {}

====
